---- MODULE Spec2Model ----
(***************************************************************************)
(* DICOM de-identification pipeline (local_deid.py, pixel_deid.py).        *)
(*                                                                         *)
(* The model follows main(): a traversal feeds files one at a time to      *)
(* process_file, which looks the accession up in the roster, allocates     *)
(* UIDs, rewrites the identity elements, sweeps every other element,       *)
(* hands the dataset to DicomPixelRedactor.redact and appends one manifest *)
(* row.  Strings are TLA+ strings handled character by character, a DICOM  *)
(* dataset is a function from tags <<group, element>> to values, a         *)
(* sequence element's value is the tuple of its item datasets.             *)
(***************************************************************************)
EXTENDS Integers, Sequences, FiniteSets, TLC

VARIABLES
    pc,                 \* position of main(): "walk", "done" (manifest written) or "crashed"
    accession_map,      \* roster: original accession -> pseudonym
    accession_uid_map,  \* pseudonym -> [study_uid, series_uid]
    folder_uid_map,     \* path segment -> token
    current_uid,        \* UIDGenerator.current_uid
    now,                \* last reading of datetime.now()
    output_manifest,    \* rows appended by process_file
    outputs,            \* output tree: output path -> dataset written by dcmwrite
    redaction_mode,     \* DicomPixelRedactor.redaction_mode
    files,              \* the files the traversal has yielded so far, in order
    met,                \* per yielded file, what the calls it made met: whether makedirs
                        \* and dcmwrite succeeded, and the readings of datetime.now()
    log,                \* per yielded file, the diagnostics process_file/main printed
    remaining,          \* number of files the traversal still holds
    csv,                \* the manifest file written at the end of main(), or NoCsv
    frame,              \* a call of redact_frame: its arguments and, once it returned, its result
    volume,             \* a call of redact: its arguments and, once it returned, its result
    uid_gen             \* calls of generate() on one generator: whether a call is in
                        \* its loop, and the identifiers returned so far

vars == <<pc, accession_map, accession_uid_map, folder_uid_map, current_uid, now,
          output_manifest, outputs, redaction_mode, files, met, log, remaining, csv, frame,
          volume, uid_gen>>

-----------------------------------------------------------------------------
(* Bounds of the model. *)

\* longest traversal
MaxFiles == 2
\* datetime.now().hour ranges over 0..MaxHour
MaxHour == 1
\* datetime.now().microsecond ranges over 0..MaxMicro
MaxMicro == 3
\* most detections the OCR reader returns on one frame
MaxDetections == 2

-----------------------------------------------------------------------------
(* Strings. *)

Upper == "ABCDEFGHIJKLMNOPQRSTUVWXYZ"
Lower == "abcdefghijklmnopqrstuvwxyz"

CharAt(s, i) == SubSeq(s, i, i)

\* index of the one-character string c in s, 0 when absent
IndexOf(c, s) ==
    IF \E i \in 1..Len(s) : CharAt(s, i) = c
    THEN CHOOSE i \in 1..Len(s) : CharAt(s, i) = c
    ELSE 0

\* str.lower() on one character
lower_char(c) ==
    IF IndexOf(c, Upper) > 0 THEN CharAt(Lower, IndexOf(c, Upper)) ELSE c

RECURSIVE lower(_)
lower(s) == IF s = "" THEN "" ELSE lower_char(CharAt(s, 1)) \o lower(Tail(s))

\* str.replace(" ", "")
RECURSIVE remove_spaces(_)
remove_spaces(s) ==
    IF s = "" THEN ""
    ELSE (IF CharAt(s, 1) = " " THEN "" ELSE CharAt(s, 1)) \o remove_spaces(Tail(s))

\* normalize_tag: tag_name.replace(" ", "").lower()
normalize_tag(tag_name) == lower(remove_spaces(tag_name))

-----------------------------------------------------------------------------
(* The keep-list and the identity-replace set, as written in the source. *)

KEEP_TAGS == {
    "AcquisitionMatrix", "AngioFlag", "BurnedInAnnotation",
    "CodeMeaning", "CodeValue", "CodingSchemeDesignator",
    "dBdt", "DeidentificationMethodCodeSequence", "DeviceSerialNumber",
    "EchoNumbers", "EchoTime", "EchoTrainLength",
    "FlipAngle", "FrameOfReferenceUID", "ImageOrientation",
    "ViewName", "ImageOrientationPatient", "ImageOrientationSlide",
    "ImagePosition", "ImagePositionPatient", "ImageType",
    "ImagingFrequency", "InPlanePhaseEncodingDirection", "InstanceNumber",
    "InstitutionAddress", "InstitutionName", "InversionTime",
    "Laterality", "LongCodeValue", "MagneticFieldStrength",
    "Manufacturer", "ManufacturerModelName", "Modality",
    "MRAcquisitionType", "NumberOfAverages", "NumberOfPhaseEncodingSteps",
    "NumberOfSlices", "NumberOfTimeSlices", "PatientPosition",
    "PercentPhaseFieldOfView", "PercentSampling", "PerformedProcedureStepDescription",
    "PixelBandwidth", "PixelSpacing", "PositionReferenceIndicator",
    "ProtocolName", "RepetitionTime", "RequestedProcedureDescription",
    "SAR", "ScanningSequence", "ScanOptions",
    "SequenceName", "SequenceVariant", "SeriesDescription",
    "SeriesNumber", "SliceLocation", "SliceThickness",
    "SoftwareVersions", "SOPClassUID", "SourceOrientation",
    "SourcePosition", "SpacingBetweenSlices", "StationName",
    "StudyDescription", "URNCodeValue", "VariableFlipAngleFlag",
    "Specific Character Set", "SOP Instance UID", "Manufacturer's Model Name",
    "Anatomic Region", "Sequence", "Body Part Examined",
    "Imager Pixel Spacing", "Relative X-Ray Exposure", "Exposure Index",
    "Target Exposure Index", "Deviation Index", "Detector Type",
    "Detector Configuration", "Patient Orientation", "Image Laterality",
    "Samples per Pixel", "Photometric Interpretation", "Rows",
    "Columns", "Bits Allocated", "Bits Stored",
    "High Bit", "Pixel Representation", "Longitudinal Temporal Information Modified",
    "Pixel Intensity Relationship", "Pixel Intensity Relationship Sign", "Window Center",
    "Window Width", "Rescale Intercept", "Rescale Slope",
    "Rescale Type", "Window Center & Width Explanation", "Lossy Image Compression",
    "Acquisition Context Sequence", "Filler Order Number / Imaging Service Request", "Presentation LUT Shape",
    "Pixel Data", "Planar Configuration", "planarconfiguration",
    "pixelaspectratio", "numberofframes", "referencedperformedprocedurestepsequence",
    "performedprotocolcodesequence", "requestattributessequence", "procedurecodesequence",
    "anatomicregionsequence", "acquisitioncontextsequence", "sequenceofultrasoundregions",
    "ultrasoundcolordatapresent", "transducerdata"
}

REPLACEMENT_TAGS == {
    "AccessionNumber", "PatientID", "PatientName", "StudyID", "PatientIdentityRemoved",
    "StudyInstanceUID", "SeriesInstanceUID", "SOPInstanceUID", "MediaStorageSOPInstanceUID"
}

keep_normalized == {normalize_tag(t) : t \in KEEP_TAGS}
replacement_normalized == {normalize_tag(t) : t \in REPLACEMENT_TAGS}

-----------------------------------------------------------------------------
(* DICOM tags <<group, element>> and the data dictionary of the codec. *)

SOPInstanceUID                == <<8, 24>>
StudyDate                     == <<8, 32>>
AccessionNumber               == <<8, 80>>
Modality                      == <<8, 96>>
CodeValue                     == <<8, 256>>
PrivateData                   == <<9, 4097>>
PatientName                   == <<16, 16>>
PatientID                     == <<16, 32>>
PatientBirthDate              == <<16, 48>>
PatientIdentityRemoved        == <<18, 98>>
StudyInstanceUID              == <<32, 13>>
SeriesInstanceUID             == <<32, 14>>
StudyID                       == <<32, 16>>
SamplesPerPixel               == <<40, 2>>
NumberOfFrames                == <<40, 8>>
BitsAllocated                 == <<40, 256>>
BitsStored                    == <<40, 257>>
HighBit                       == <<40, 258>>
PixelRepresentation           == <<40, 259>>
RequestedProcedureDescription == <<50, 4192>>
RequestAttributesSequence     == <<64, 629>>
RequestedProcedureID          == <<64, 4097>>
ViewCodeSequence              == <<84, 544>>
PixelData                     == <<32736, 16>>

\* DataElement.tag.is_private: the group number is odd
is_private(tag) == tag[1] % 2 = 1

\* DataElement.name: the dictionary description of the tag
name(tag) ==
    CASE tag = SOPInstanceUID                -> "SOP Instance UID"
      [] tag = StudyDate                     -> "Study Date"
      [] tag = AccessionNumber               -> "Accession Number"
      [] tag = Modality                      -> "Modality"
      [] tag = CodeValue                     -> "Code Value"
      [] tag = PatientName                   -> "Patient's Name"
      [] tag = PatientID                     -> "Patient ID"
      [] tag = PatientBirthDate              -> "Patient's Birth Date"
      [] tag = PatientIdentityRemoved        -> "Patient Identity Removed"
      [] tag = StudyInstanceUID              -> "Study Instance UID"
      [] tag = SeriesInstanceUID             -> "Series Instance UID"
      [] tag = StudyID                       -> "Study ID"
      [] tag = SamplesPerPixel               -> "Samples per Pixel"
      [] tag = NumberOfFrames                -> "Number of Frames"
      [] tag = BitsAllocated                 -> "Bits Allocated"
      [] tag = BitsStored                    -> "Bits Stored"
      [] tag = HighBit                       -> "High Bit"
      [] tag = PixelRepresentation           -> "Pixel Representation"
      [] tag = RequestedProcedureDescription -> "Requested Procedure Description"
      [] tag = RequestAttributesSequence     -> "Request Attributes Sequence"
      [] tag = RequestedProcedureID          -> "Requested Procedure ID"
      [] tag = ViewCodeSequence              -> "View Code Sequence"
      [] tag = PixelData                     -> "Pixel Data"
      [] OTHER                               -> "Private tag data"

\* DataElement.VR == "SQ"
is_sequence(tag) == tag \in {RequestAttributesSequence, ViewCodeSequence}

\* the tags of the model, and normalize_tag(elem.name) for each of them
Tags ==
    {SOPInstanceUID, StudyDate, AccessionNumber, Modality, CodeValue, PrivateData,
     PatientName, PatientID, PatientBirthDate, PatientIdentityRemoved, StudyInstanceUID,
     SeriesInstanceUID, StudyID, SamplesPerPixel, NumberOfFrames, BitsAllocated,
     BitsStored, HighBit, PixelRepresentation, RequestedProcedureDescription,
     RequestAttributesSequence, RequestedProcedureID, ViewCodeSequence, PixelData}

norm == [tag \in Tags |-> normalize_tag(name(tag))]

\* tags in ascending order, as a Dataset iterates
TagLess(a, b) == a[1] < b[1] \/ (a[1] = b[1] /\ a[2] < b[2])

RECURSIVE SortedTags(_)
SortedTags(S) ==
    IF S = {} THEN <<>>
    ELSE LET m == CHOOSE a \in S : \A b \in S \ {a} : TagLess(a, b)
         IN  <<m>> \o SortedTags(S \ {m})

RECURSIVE Concat(_)
Concat(seqs) == IF seqs = <<>> THEN <<>> ELSE Head(seqs) \o Concat(Tail(seqs))

\* Dataset.iterall(): every element, depth first; the sweep reads elem.tag only
RECURSIVE iterall(_)
iterall(ds) ==
    LET order == SortedTags(DOMAIN ds)
    IN  Concat([i \in 1..Len(order) |->
            <<order[i]>> \o
            (IF is_sequence(order[i])
             THEN Concat([j \in 1..Len(ds[order[i]]) |-> iterall(ds[order[i]][j])])
             ELSE <<>>)])

\* ds.<keyword> = value, ds[tag].value = value
Put(ds, tag, value) ==
    [t \in DOMAIN ds \cup {tag} |-> IF t = tag THEN value ELSE ds[t]]

\* del ds[tag]
Del(ds, tag) == [t \in DOMAIN ds \ {tag} |-> ds[t]]

\* the value ds[tag].value = '' leaves: Sequence('') is the empty sequence
Cleared(tag) == IF is_sequence(tag) THEN <<>> ELSE ""

\* the element name is looked up in KEEP_TAGS as it stands, without normalize_tag
SweepElemUnnormalized(ds, tag, unclearable) ==
    IF name(tag) \in KEEP_TAGS THEN ds
    ELSE IF norm[tag] \in replacement_normalized THEN ds
    ELSE IF is_private(tag)
         THEN (IF tag \in DOMAIN ds THEN Del(ds, tag) ELSE ds)
    ELSE IF tag \in DOMAIN ds /\ tag \notin unclearable
         THEN Put(ds, tag, Cleared(tag))
    ELSE IF tag \in DOMAIN ds THEN Del(ds, tag)
    ELSE ds

\* one iteration of the sweep of process_file over elem; unclearable are the
\* tags whose value setter raises
SweepElem(ds, tag, unclearable) ==
    IF norm[tag] \in keep_normalized THEN ds
    ELSE IF norm[tag] \in replacement_normalized THEN ds
    ELSE IF is_private(tag)
         THEN (IF tag \in DOMAIN ds THEN Del(ds, tag) ELSE ds)
    ELSE IF tag \in DOMAIN ds /\ tag \notin unclearable
         THEN Put(ds, tag, Cleared(tag))
    ELSE IF tag \in DOMAIN ds THEN Del(ds, tag)
    ELSE ds

RECURSIVE SweepList(_, _, _)
SweepList(ds, elems, unclearable) ==
    IF elems = <<>> THEN ds
    ELSE SweepList(SweepElem(ds, Head(elems), unclearable), Tail(elems), unclearable)

\* for elem in list(ds.iterall()): ...
Sweep(ds, unclearable) == SweepList(ds, iterall(ds), unclearable)

-----------------------------------------------------------------------------
(* The clock and UIDGenerator. *)

\* the fields of datetime.now() the model holds fixed
Today == [year |-> 2026, month |-> 11, day |-> 1, minute |-> 5, second |-> 3]

\* the readings datetime.now() can return
Clock ==
    {[year |-> Today.year, month |-> Today.month, day |-> Today.day, hour |-> h,
      minute |-> Today.minute, second |-> Today.second, microsecond |-> us] :
        h \in 0..MaxHour, us \in 0..MaxMicro}

\* a <= b for two readings (the fields above hour are fixed)
TimeLeq(a, b) ==
    a.hour < b.hour \/ (a.hour = b.hour /\ a.microsecond <= b.microsecond)

org_root == "1.3.6.1.4.1.11129.5.1"

\* f"{self.org_root}.{n.year}{n.month}{n.day}{n.minute}{n.second}{n.microsecond}"
new_uid(n) ==
    org_root \o "." \o ToString(n.year) \o ToString(n.month) \o ToString(n.day)
             \o ToString(n.minute) \o ToString(n.second) \o ToString(n.microsecond)

\* new_uid for every reading of the clock
uid_at == [n \in Clock |-> new_uid(n)]

\* most calls of generate() in a run of the generator on its own
MaxCalls == 3

\* the loop returns whatever it formatted, equal to current_uid or not
generate_unguarded(from, cur) == {n \in Clock : TimeLeq(from, n)}

\* UIDGenerator.generate(): the readings at which the call returns when the clock
\* stands at `from` and current_uid = cur; the loop reads the clock again while
\* new_uid == current_uid.
generate(from, cur) == {n \in Clock : TimeLeq(from, n) /\ uid_at[n] # cur}

\* The clock readings of k consecutive generate() calls, each the reading its
\* call returned at.
RECURSIVE generate_calls(_, _, _)
generate_calls(from, cur, k) ==
    IF k = 0 THEN {<<>>}
    ELSE UNION {{<<n>> \o rest : rest \in generate_calls(n, uid_at[n], k - 1)} :
                    n \in generate(from, cur)}

-----------------------------------------------------------------------------
(* DicomPixelRedactor. *)

keywords == <<"right", "left", "rt", "lt", "rk", "lk", "kidney", "bladder",
              "sagittal", "sag", "transverse", "trans", "prone">>

\* prob > 0.6, confidences counted in hundredths
Threshold == 60

Whitespace == {" ", "\t", "\n"}

RECURSIVE lstrip(_)
lstrip(s) ==
    IF s # "" /\ CharAt(s, 1) \in Whitespace THEN lstrip(Tail(s)) ELSE s

RECURSIVE rstrip(_)
rstrip(s) ==
    IF s # "" /\ CharAt(s, Len(s)) \in Whitespace
    THEN rstrip(SubSeq(s, 1, Len(s) - 1)) ELSE s

\* str.strip()
strip(s) == rstrip(lstrip(s))

\* k in s
Contains(s, k) == \E i \in 1..(Len(s) - Len(k) + 1) : SubSeq(s, i, i + Len(k) - 1) = k

\* str.isalpha() on a one-character string
isalpha(c) == IndexOf(c, Upper) > 0 \/ IndexOf(c, Lower) > 0

\* most frames of a multi-frame volume
MaxFrames == 3

\* the confidence test is prob >= 0.6
MaskedAtThreshold(mode, det) ==
    LET cleaned_text == lower(strip(det.text))
    IN  /\ det.prob >= Threshold
        /\ \/ mode = "Full"
           \/ /\ ~ \E i \in 1..Len(keywords) : Contains(cleaned_text, keywords[i])
              /\ ~ (Len(cleaned_text) = 1 /\ isalpha(cleaned_text))

\* the mode is compared without regard to case
MaskedModeCaseFolded(mode, det) ==
    LET cleaned_text == lower(strip(det.text))
    IN  /\ det.prob > Threshold
        /\ \/ lower(mode) = "full"
           \/ /\ ~ \E i \in 1..Len(keywords) : Contains(cleaned_text, keywords[i])
              /\ ~ (Len(cleaned_text) = 1 /\ isalpha(cleaned_text))

\* the body of `for (bbox, text, prob) in results` up to the drawing: TRUE when
\* the detection reaches cv2.rectangle
Masked(mode, det) ==
    LET cleaned_text == lower(strip(det.text))
    IN  /\ det.prob > Threshold
        /\ \/ mode = "Full"
           \/ /\ ~ \E i \in 1..Len(keywords) : Contains(cleaned_text, keywords[i])
              /\ ~ (Len(cleaned_text) = 1 /\ isalpha(cleaned_text))

Max(a, b) == IF a >= b THEN a ELSE b
Min(a, b) == IF a <= b THEN a ELSE b

\* the corners handed to cv2.rectangle: tl and br clamped to the frame
ClampPoint(pt, rows, cols) ==
    <<Max(0, Min(pt[1], cols - 1)), Max(0, Min(pt[2], rows - 1))>>

\* cv2.rectangle(mask, tl, br, 0, thickness=-1): the pixels <<x, y>> it fills
Rectangle(pt1, pt2) ==
    {<<x, y>> : x \in Min(pt1[1], pt2[1])..Max(pt1[1], pt2[1]),
                y \in Min(pt1[2], pt2[2])..Max(pt1[2], pt2[2])}

\* the pixels <<x, y>> of the mask that are 0 after the loop over results
RECURSIVE ZeroedBy(_, _, _, _)
ZeroedBy(mode, results, rows, cols) ==
    IF results = <<>> THEN {}
    ELSE LET det == Head(results)
             tl  == ClampPoint(det.bbox[1], rows, cols)
             br  == ClampPoint(det.bbox[3], rows, cols)
         IN  (IF Masked(mode, det) THEN Rectangle(tl, br) ELSE {})
             \cup ZeroedBy(mode, Tail(results), rows, cols)

\* a frame whose detection raised comes back blank instead of unredacted
redact_frame_blank_on_error(mode, img, samples, ocr) ==
    [y \in DOMAIN img |-> [x \in DOMAIN img[y] |->
        IF samples = 1 THEN 0 ELSE <<0, 0, 0>>]]

\* redact_frame(img, samples): img[y][x] with y in 0..rows-1, x in 0..cols-1;
\* ocr is what self.reader.readtext does on this frame.
redact_frame(mode, img, samples, ocr) ==
    LET rows == Cardinality(DOMAIN img)
        cols == Cardinality(DOMAIN img[0])
        zero == ZeroedBy(mode, ocr.results, rows, cols)
    IN  IF ocr.raises THEN img
        ELSE [y \in DOMAIN img |-> [x \in DOMAIN img[y] |->
                IF <<x, y>> \in zero
                THEN (IF samples = 1 THEN 0 ELSE <<0, 0, 0>>)
                ELSE img[y][x]]]

\* ds.pixel_array.shape: (frames,) rows, cols (, samples) as pydicom decodes it
shape(ds) ==
    LET img   == ds[PixelData][1]
        nf    == IF NumberOfFrames \in DOMAIN ds THEN ds[NumberOfFrames] ELSE 1
        sp    == IF SamplesPerPixel \in DOMAIN ds THEN ds[SamplesPerPixel] ELSE 1
    IN  (IF nf > 1 THEN <<nf>> ELSE <<>>)
        \o <<Cardinality(DOMAIN img), Cardinality(DOMAIN img[0])>>
        \o (IF sp > 1 THEN <<sp>> ELSE <<>>)

\* the frame count redact works with (pixel_deid.py line 34)
frames(ds) ==
    LET samples == IF SamplesPerPixel \in DOMAIN ds THEN ds[SamplesPerPixel] ELSE 1
    IN  IF NumberOfFrames \in DOMAIN ds THEN ds[NumberOfFrames]
        ELSE IF Len(shape(ds)) = 4 \/ (Len(shape(ds)) = 3 /\ samples = 1)
             THEN shape(ds)[1]
             ELSE 1

\* DicomPixelRedactor.redact(ds, output_path).  ds[PixelData] is the tuple of
\* decoded frames; pixel_ok: ds.pixel_array can be read; ocr[i]: the OCR reader
\* on frame i; write_ok: dcmwrite succeeds.  The result is the dataset as redact
\* leaves it, whether the file was written, and the diagnostic printed;
\* "raise" is an exception leaving redact.
redact(mode, ds, pixel_ok, ocr, write_ok) ==
    IF PixelData \notin DOMAIN ds
    THEN [ds |-> ds, written |-> FALSE, msg |-> "no pixel data"]
    ELSE IF ~pixel_ok
    THEN [ds |-> ds, written |-> FALSE, msg |-> "failed to access pixel array"]
    ELSE IF BitsAllocated \notin DOMAIN ds
    THEN [ds |-> ds, written |-> FALSE, msg |-> "raise"]
    ELSE
    LET bits     == ds[BitsAllocated]
        samples  == IF SamplesPerPixel \in DOMAIN ds THEN ds[SamplesPerPixel] ELSE 1
        original == ds[PixelData]
        redacted == IF frames(ds) > 1
                    THEN [i \in 1..frames(ds) |->
                            redact_frame(mode, original[i], samples, ocr[i])]
                    ELSE <<redact_frame(mode, original[1], samples, ocr[1])>>
        ds1 == Put(ds, PixelData, redacted)
        ds2 == Put(ds1, BitsAllocated, bits)
        ds3 == Put(ds2, BitsStored, bits)
        ds4 == Put(ds3, HighBit, bits - 1)
        ds5 == Put(ds4, PixelRepresentation, 0)
    IN  IF write_ok
        THEN [ds |-> ds5, written |-> TRUE, msg |-> "saved"]
        ELSE [ds |-> ds5, written |-> FALSE, msg |-> "failed to save"]

-----------------------------------------------------------------------------
(* process_file.  A file f of the traversal is a record                    *)
(*   root, file   the directory segments below input_dir and the file name *)
(*   is_dicom     pydicom.misc.is_dicom(full_path)                         *)
(*   readable     pydicom.dcmread(full_path) returns                       *)
(*   ds           the dataset dcmread returns                              *)
(*   decodes      ds.decompress() and ds.pixel_array succeed               *)
(*   unclearable  the tags whose value setter raises                       *)
(*   ocr          per frame, what the OCR reader returns or that it raises *)
(* and env says what the file system does: makedirs_ok, write_ok.          *)

None == "None"

\* str(ds.get("AccessionNumber", "")).strip()
accession(f) ==
    IF AccessionNumber \in DOMAIN f.ds THEN strip(f.ds[AccessionNumber]) ELSE ""

\* the decode failure is printed but process_file does not return
SkipReasonNoDecodeReturn(f, roster) ==
    IF ~f.is_dicom THEN "skipping non-DICOM file"
    ELSE IF ~f.readable THEN "failed to read"
    ELSE IF accession(f) \notin DOMAIN roster THEN "notthere"
    ELSE None

\* lines 62-91: the diagnostic of the early return process_file takes, or None
SkipReason(f, roster) ==
    IF ~f.is_dicom THEN "skipping non-DICOM file"
    ELSE IF ~f.readable THEN "failed to read"
    ELSE IF accession(f) \notin DOMAIN roster THEN "notthere"
    ELSE IF ~f.decodes \/ PixelData \notin DOMAIN f.ds \/ f.ds[PixelData] = <<>>
         THEN "failed to decompress"
    ELSE None

\* path_parts[1:]
Rest(path_parts) == IF path_parts = <<>> THEN <<>> ELSE Tail(path_parts)

\* the pair is allocated again on every file
needs_pair_always(uid_map, deid_acc) == TRUE

\* line 95: if deid_acc not in accession_uid_map
needs_pair(uid_map, deid_acc) == deid_acc \notin DOMAIN uid_map

\* lines 95-99: the UID pair of deid_acc is the first two uids generated for it
ensure_uid_pair(uid_map, deid_acc, uids) ==
    IF needs_pair(uid_map, deid_acc)
    THEN [p \in DOMAIN uid_map \cup {deid_acc} |->
            IF p = deid_acc THEN [study_uid |-> uids[1], series_uid |-> uids[2]]
            ELSE uid_map[p]]
    ELSE uid_map

\* lines 107-109: every part not yet in folder_uid_map takes the next generated uid
RECURSIVE assign_tokens(_, _, _)
assign_tokens(folder_map, parts, uids) ==
    IF parts = <<>> THEN folder_map
    ELSE IF Head(parts) \in DOMAIN folder_map
         THEN assign_tokens(folder_map, Tail(parts), uids)
         ELSE assign_tokens((Head(parts) :> Head(uids)) @@ folder_map,
                            Tail(parts), Tail(uids))

\* the number of generate() calls process_file makes on file f
Calls(f, deid_acc, uid_map, folder_map) ==
    (IF needs_pair(uid_map, deid_acc) THEN 2 ELSE 0)
    + Cardinality({Rest(f.root)[i] : i \in 1..Len(Rest(f.root))} \ DOMAIN folder_map)
    + 1

\* the folders below the first keep their names
deid_parts_untokenized(deid_acc, path_parts, folder_map, sop_uid) ==
    <<deid_acc>> \o Rest(path_parts) \o <<deid_acc \o "_" \o sop_uid \o ".dcm">>

\* lines 106-114: the output path below output_base_dir
deid_parts(deid_acc, path_parts, folder_map, sop_uid) ==
    <<deid_acc>>
    \o [i \in 1..Len(Rest(path_parts)) |-> folder_map[Rest(path_parts)[i]]]
    \o <<deid_acc \o "_" \o sop_uid \o ".dcm">>

\* lines 120-127
replace_identity(ds, deid_acc, pair, sop_uid) ==
    LET d1 == Put(ds, AccessionNumber, deid_acc)
        d2 == Put(d1, PatientID, deid_acc)
        d3 == Put(d2, PatientName, deid_acc)
        d4 == Put(d3, StudyID, deid_acc)
        d5 == Put(d4, PatientIdentityRemoved, "YES")
        d6 == Put(d5, StudyInstanceUID, pair.study_uid)
        d7 == Put(d6, SeriesInstanceUID, pair.series_uid)
    IN  Put(d7, SOPInstanceUID, sop_uid)

\* lines 130-134
new_file_meta(sop_uid) ==
    [MediaStorageSOPClassUID    |-> sop_uid,
     MediaStorageSOPInstanceUID |-> sop_uid,
     ImplementationClassUID     |-> "1.3.6.1.4.1.11129.5.1",
     TransferSyntaxUID          |-> "ExplicitVRLittleEndian"]

\* lines 184-197
manifest_row(f, output_path, deid_acc, ds, sop_uid) ==
    [original_path          |-> f.root \o <<f.file>>,
     deid_path              |-> output_path,
     original_accession     |-> accession(f),
     deid_accession         |-> deid_acc,
     study_uid              |-> ds[StudyInstanceUID],
     series_uid             |-> ds[SeriesInstanceUID],
     sop_instance_uid       |-> sop_uid,
     AccessionNumber        |-> ds[AccessionNumber],
     PatientIdentityRemoved |-> ds[PatientIdentityRemoved],
     PatientName            |-> ds[PatientName],
     StudyID                |-> ds[StudyID],
     PatientID              |-> ds[PatientID]]

\* The state process_file works on: st has the fields accession_map,
\* accession_uid_map, folder_uid_map, current_uid, now, output_manifest, outputs.
\* ts are the clock readings at which the generate() calls of this file return.
\* The result is the state after the call, with the diagnostic of the call
\* (msg; "raise" when an exception leaves process_file) and output_path.
process_file(st, mode, f, env, ts) ==
    IF SkipReason(f, st.accession_map) # None
    THEN [st |-> st, msg |-> SkipReason(f, st.accession_map), output_path |-> <<>>]
    ELSE
    LET deid_acc == st.accession_map[accession(f)]
        uids     == [i \in 1..Len(ts) |-> uid_at[ts[i]]]
        uid_map  == ensure_uid_pair(st.accession_uid_map, deid_acc, uids)
        tok_uids == SubSeq(uids,
                           (IF needs_pair(st.accession_uid_map, deid_acc) THEN 3 ELSE 1),
                           Len(uids) - 1)
        fold_map == assign_tokens(st.folder_uid_map, Rest(f.root), tok_uids)
        sop_uid  == uids[Len(uids)]
        output_path == deid_parts(deid_acc, f.root, fold_map, sop_uid)
        st1 == [st EXCEPT !.accession_uid_map = uid_map,
                          !.folder_uid_map = fold_map,
                          !.current_uid = sop_uid,
                          !.now = ts[Len(ts)]]
        ds1 == replace_identity(f.ds, deid_acc, uid_map[deid_acc], sop_uid)
        ds2 == Sweep(ds1, f.unclearable)
        red == redact(mode, ds2, f.decodes, f.ocr, env.write_ok)
        st2 == IF red.written
               THEN [st1 EXCEPT !.outputs =
                        [q \in DOMAIN st1.outputs \cup {output_path} |->
                            IF q = output_path
                            THEN [ds |-> red.ds, file_meta |-> new_file_meta(sop_uid)]
                            ELSE st1.outputs[q]]]
               ELSE st1
    IN  IF ~env.makedirs_ok \/ red.msg = "raise"
        THEN [st |-> st1, msg |-> "raise", output_path |-> output_path]
        ELSE [st |-> [st2 EXCEPT !.output_manifest =
                        Append(@, manifest_row(f, output_path, deid_acc, red.ds, sop_uid))],
              msg |-> red.msg, output_path |-> output_path]

-----------------------------------------------------------------------------
(* The inputs of a run. *)

\* the roster read from manifest_path: accession_num -> subject_id
Roster == ("A123" :> "P001") @@ ("B456" :> "P002")

Modes == {"Full", "Selective"}

\* a decoded 1 x 2 grayscale frame, img[y][x]
Frame == [y \in {0} |-> [x \in {0, 1} |-> 7]]

\* the OCR reader finds a name over pixel (0, 0), or "LEFT" over pixel (1, 0)
Detection(x, text) ==
    [bbox |-> <<<<x, 0>>, <<x, 0>>, <<x, 0>>, <<x, 0>>>>, text |-> text, prob |-> 90]

OcrName == <<[raises |-> FALSE, results |-> <<Detection(0, "Doe")>>]>>
OcrLeft == <<[raises |-> FALSE, results |-> <<Detection(1, " LEFT")>>]>>

\* the image pixel module of every decodable file
PixelModule ==
    (SamplesPerPixel :> 1) @@ (BitsAllocated :> 16) @@ (BitsStored :> 12)
    @@ (HighBit :> 11) @@ (PixelRepresentation :> 1) @@ (PixelData :> <<Frame>>)

\* a dataset with nothing but the accession and the pixels
DsMin(acc) == (AccessionNumber :> acc) @@ PixelModule

\* a dataset with identity elements, kept and other elements, a private element,
\* a kept sequence and a sequence that is not kept
DsRich(acc) ==
    (SOPInstanceUID :> "1.2.840.1") @@ (StudyDate :> "20200131")
    @@ (AccessionNumber :> acc) @@ (Modality :> "US") @@ (PrivateData :> "vendor")
    @@ (PatientName :> "Doe^John") @@ (PatientID :> "MRN7")
    @@ (PatientBirthDate :> "19700101")
    @@ (StudyInstanceUID :> "1.2.840.2") @@ (SeriesInstanceUID :> "1.2.840.3")
    @@ (StudyID :> "77") @@ (RequestedProcedureID :> "RP9")
    @@ (RequestAttributesSequence :>
            << (AccessionNumber :> acc) @@ (RequestedProcedureDescription :> "Renal US")
               @@ (RequestedProcedureID :> "RP9") @@ (PrivateData :> "vendor") >>)
    @@ (ViewCodeSequence :> << (CodeValue :> "R-10206") >>)
    @@ PixelModule

\* a kept sequence holding an element the top level does not have
DsNested(acc) ==
    (AccessionNumber :> acc) @@ (PatientID :> "MRN8")
    @@ (RequestAttributesSequence :>
            << (PatientBirthDate :> "19700101") @@ (PatientID :> "MRN8") >>)
    @@ PixelModule

File(root, is_dicom, readable, ds, decodes, unclearable, ocr) ==
    [root |-> root, file |-> "img.dcm", is_dicom |-> is_dicom, readable |-> readable,
     ds |-> ds, decodes |-> decodes, unclearable |-> unclearable, ocr |-> ocr]

\* the files a traversal can yield
FileSet == {
    File(<<"A123">>, FALSE, FALSE, <<>>, FALSE, {}, <<>>),
    File(<<"A123">>, TRUE, FALSE, <<>>, FALSE, {}, <<>>),
    File(<<"Z999", "s1">>, TRUE, TRUE, DsMin("Z999"), TRUE, {}, OcrName),
    File(<<"A123", "s1">>, TRUE, TRUE, DsRich("A123"), FALSE, {}, OcrName),
    File(<<"B456">>, TRUE, TRUE, (AccessionNumber :> "B456"), TRUE, {}, OcrName),
    File(<<"A123", "s1">>, TRUE, TRUE, DsRich("A123"), TRUE, {}, OcrName),
    File(<<"A123", "s2", "s1">>, TRUE, TRUE, DsMin(" A123 "), TRUE, {}, OcrLeft),
    File(<<"A123">>, TRUE, TRUE, DsNested("A123"), TRUE, {}, OcrName),
    File(<<"B456", "s1">>, TRUE, TRUE, DsRich("B456"), TRUE,
         {StudyDate, ViewCodeSequence}, OcrLeft),
    File(<<>>, TRUE, TRUE, DsMin("B456"), TRUE, {}, OcrName)
}

\* what the file system does during one call of process_file
Envs == {[makedirs_ok |-> m, write_ok |-> w] : m, w \in BOOLEAN}

NoCsv == "NoCsv"
NoFrame == [pc |-> "none"]
NoVolume == [pc |-> "none"]
NoGen == [pc |-> "none"]

-----------------------------------------------------------------------------
(* main *)

State ==
    [accession_map |-> accession_map, accession_uid_map |-> accession_uid_map,
     folder_uid_map |-> folder_uid_map, current_uid |-> current_uid, now |-> now,
     output_manifest |-> output_manifest, outputs |-> outputs]

Init ==
    /\ pc = "walk"
    /\ accession_map = Roster
    /\ accession_uid_map = <<>>
    /\ folder_uid_map = <<>>
    /\ current_uid = None
    /\ now = [year |-> Today.year, month |-> Today.month, day |-> Today.day, hour |-> 0,
              minute |-> Today.minute, second |-> Today.second, microsecond |-> 0]
    /\ output_manifest = <<>>
    /\ outputs = <<>>
    /\ redaction_mode \in Modes
    /\ files = <<>>
    /\ met = <<>>
    /\ log = <<>>
    /\ remaining \in 0..MaxFiles
    /\ csv = NoCsv
    /\ frame = NoFrame
    /\ volume = NoVolume
    /\ uid_gen = NoGen

\* the call of process_file is not inside try/except
after_file_uncaught(msg) == IF msg = "raise" THEN "crashed" ELSE "walk"

\* lines 256-263: where main() stands after a call of process_file that printed
\* msg or raised
after_file(msg) == "walk"

\* the clock readings the generate() calls of process_file on f can return at
Readings(f) ==
    IF SkipReason(f, accession_map) # None THEN {<<>>}
    ELSE generate_calls(now, current_uid,
             Calls(f, accession_map[accession(f)], accession_uid_map, folder_uid_map))

\* what the calls of process_file on f can meet; a skipped file calls neither
\* makedirs nor dcmwrite nor generate()
Meets(f) ==
    IF SkipReason(f, accession_map) # None
    THEN {[env |-> [makedirs_ok |-> TRUE, write_ok |-> TRUE], ts |-> <<>>]}
    ELSE {[env |-> env, ts |-> ts] : env \in Envs, ts \in Readings(f)}

\* one iteration of the loop of main() over the files of the traversal
ProcessNext ==
    /\ pc = "walk"
    /\ remaining > 0
    /\ remaining' = remaining - 1
    /\ \E f \in FileSet :
         /\ files' = Append(files, f)
         /\ \E m \in Meets(f) :
              /\ met' = Append(met, m)
              /\ \E r \in {process_file(State, redaction_mode, f, m.env, m.ts)} :
                   /\ pc' = after_file(r.msg)
                   /\ log' = Append(log, [msg |-> IF r.msg = "raise"
                                                 THEN "error processing" ELSE r.msg,
                                          output_path |-> r.output_path])
                   /\ accession_uid_map' = r.st.accession_uid_map
                   /\ folder_uid_map' = r.st.folder_uid_map
                   /\ current_uid' = r.st.current_uid
                   /\ now' = r.st.now
                   /\ output_manifest' = r.st.output_manifest
                   /\ outputs' = r.st.outputs
    /\ UNCHANGED <<accession_map, redaction_mode, csv, frame, volume, uid_gen>>

\* lines 265-267: pd.DataFrame(output_manifest).to_csv(...)
SaveManifest ==
    /\ pc = "walk"
    /\ remaining = 0
    /\ csv' = output_manifest
    /\ pc' = "done"
    /\ UNCHANGED <<accession_map, accession_uid_map, folder_uid_map, current_uid, now,
                   output_manifest, outputs, redaction_mode, files, met, log, remaining,
                   frame, volume, uid_gen>>

Next == ProcessNext \/ SaveManifest

Spec == Init /\ [][Next]_vars

\* main() runs without waiting on anything: every step it can take, it takes
FairSpec == Spec /\ WF_vars(Next)

-----------------------------------------------------------------------------
(* redact_frame on its own: one call on a frame with the detections the OCR *)
(* reader returns for it.                                                    *)

FrameModes == {"Full", "Selective", "full", ""}

\* 2 x 3 frames without a zero sample, img[y][x]
GrayFrame  == [y \in 0..1 |-> [x \in 0..2 |-> 7 + y]]
ColorFrame == [y \in 0..1 |-> [x \in 0..2 |-> <<7, 8, 9 + y>>]]

\* quadrilaterals <<tl, tr, br, bl>> of points <<x, y>>
\* an upright box, a single pixel, a slanted box whose tl and br share a column,
\* and a box that lies wholly outside the 2 x 3 frame
Boxes == {
    << <<0, 0>>, <<1, 0>>, <<1, 1>>, <<0, 1>> >>,
    << <<2, 1>>, <<2, 1>>, <<2, 1>>, <<2, 1>> >>,
    << <<1, 0>>, <<2, 0>>, <<1, 1>>, <<0, 1>> >>,
    << <<3, 2>>, <<4, 2>>, <<4, 3>>, <<3, 3>> >>
}

Texts == {"LEFT", " Rt kidney ", "Doe^John", "Robert", "A", " b\n", "7", "ab"}

\* confidences in hundredths, around the threshold
Probs == {Threshold - 1, Threshold, Threshold + 1}

Detections  == [bbox : Boxes, text : Texts, prob : Probs]

RECURSIVE SeqsUpTo(_, _)
SeqsUpTo(S, n) ==
    IF n = 0 THEN {<<>>}
    ELSE SeqsUpTo(S, n - 1)
         \cup {Append(q, e) : q \in {q \in SeqsUpTo(S, n - 1) : Len(q) = n - 1}, e \in S}

InitFrame ==
    /\ pc = "frame"
    /\ accession_map = Roster
    /\ accession_uid_map = <<>>
    /\ folder_uid_map = <<>>
    /\ current_uid = None
    /\ now = [year |-> Today.year, month |-> Today.month, day |-> Today.day, hour |-> 0,
              minute |-> Today.minute, second |-> Today.second, microsecond |-> 0]
    /\ output_manifest = <<>>
    /\ outputs = <<>>
    /\ redaction_mode \in FrameModes
    /\ files = <<>>
    /\ met = <<>>
    /\ log = <<>>
    /\ remaining = 0
    /\ csv = NoCsv
    /\ volume = NoVolume
    /\ uid_gen = NoGen
    /\ \E samples \in {1, 3}, raises \in BOOLEAN, results \in SeqsUpTo(Detections, MaxDetections) :
         frame = [pc |-> "call",
                  img |-> IF samples = 1 THEN GrayFrame ELSE ColorFrame,
                  samples |-> samples,
                  ocr |-> [raises |-> raises, results |-> results]]

\* self.redact_frame(img, samples)
RedactFrame ==
    /\ pc = "frame"
    /\ frame.pc = "call"
    /\ frame' = [pc |-> "returned", img |-> frame.img, samples |-> frame.samples,
                 ocr |-> frame.ocr,
                 out |-> redact_frame(redaction_mode, frame.img, frame.samples, frame.ocr)]
    /\ UNCHANGED <<pc, accession_map, accession_uid_map, folder_uid_map, current_uid, now,
                   output_manifest, outputs, redaction_mode, files, met, log, remaining,
                   csv, volume, uid_gen>>

NextFrame == RedactFrame

SpecFrame == InitFrame /\ [][NextFrame]_vars

-----------------------------------------------------------------------------
(* redact on its own: one call on a dataset of 1..MaxFrames frames, with    *)
(* what the OCR reader does on each frame.                                 *)

\* frame i of a volume: 1 x 2, its samples tell the frames apart
VolumeFrame(i) == [y \in {0} |-> [x \in {0, 1} |-> 7 + i]]

\* a dataset of n frames; NumberOfFrames is present when n > 1; InitRedact also
\* draws it without its Pixel Data element
VolumeDs(n) ==
    (SamplesPerPixel :> 1) @@ (BitsAllocated :> 16) @@ (BitsStored :> 12)
    @@ (HighBit :> 11) @@ (PixelRepresentation :> 1)
    @@ (PixelData :> [i \in 1..n |-> VolumeFrame(i)])
    @@ (IF n > 1 THEN (NumberOfFrames :> n) ELSE <<>>)

\* the OCR reader on one frame: it raises, finds nothing, finds a name over
\* pixel (0, 0), or finds "LEFT" over pixel (1, 0)
OcrOutcomes == {
    [raises |-> TRUE,  results |-> <<>>],
    [raises |-> FALSE, results |-> <<>>],
    [raises |-> FALSE, results |-> <<Detection(0, "Doe")>>],
    [raises |-> FALSE, results |-> <<Detection(1, " LEFT")>>]
}

InitRedact ==
    /\ pc = "redact"
    /\ accession_map = Roster
    /\ accession_uid_map = <<>>
    /\ folder_uid_map = <<>>
    /\ current_uid = None
    /\ now = [year |-> Today.year, month |-> Today.month, day |-> Today.day, hour |-> 0,
              minute |-> Today.minute, second |-> Today.second, microsecond |-> 0]
    /\ output_manifest = <<>>
    /\ outputs = <<>>
    /\ redaction_mode \in Modes
    /\ files = <<>>
    /\ met = <<>>
    /\ log = <<>>
    /\ remaining = 0
    /\ csv = NoCsv
    /\ frame = NoFrame
    /\ uid_gen = NoGen
    /\ \E n \in 1..MaxFrames, has_pixels, pixel_ok, write_ok \in BOOLEAN :
       \E ocr \in [1..n -> OcrOutcomes] :
         volume = [pc |-> "call",
                   ds |-> IF has_pixels THEN VolumeDs(n) ELSE Del(VolumeDs(n), PixelData),
                   pixel_ok |-> pixel_ok, ocr |-> ocr, write_ok |-> write_ok]

\* redactor.redact(ds, output_path)
Redact ==
    /\ pc = "redact"
    /\ volume.pc = "call"
    /\ volume' = [pc |-> "returned", ds |-> volume.ds, pixel_ok |-> volume.pixel_ok,
                  ocr |-> volume.ocr, write_ok |-> volume.write_ok,
                  out |-> redact(redaction_mode, volume.ds, volume.pixel_ok, volume.ocr,
                                 volume.write_ok)]
    /\ UNCHANGED <<pc, accession_map, accession_uid_map, folder_uid_map, current_uid, now,
                   output_manifest, outputs, redaction_mode, files, met, log, remaining,
                   csv, frame, uid_gen>>

NextRedact == Redact

SpecRedact == InitRedact /\ [][NextRedact]_vars

-----------------------------------------------------------------------------
(* UIDGenerator on its own: calls of generate(), one iteration of its loop  *)
(* per step.  Every iteration reads the clock, which has not gone back.    *)

InitGen ==
    /\ pc = "generate"
    /\ accession_map = Roster
    /\ accession_uid_map = <<>>
    /\ folder_uid_map = <<>>
    /\ current_uid = None
    /\ now \in {n \in Clock : n.hour = 0}
    /\ output_manifest = <<>>
    /\ outputs = <<>>
    /\ redaction_mode \in Modes
    /\ files = <<>>
    /\ met = <<>>
    /\ log = <<>>
    /\ remaining = 0
    /\ csv = NoCsv
    /\ frame = NoFrame
    /\ volume = NoVolume
    /\ uid_gen = [pc |-> "idle", returned |-> <<>>]

\* uid_gen.generate() is called; the run is cut off after MaxCalls calls and
\* where the readings of Clock hold no identifier other than current_uid
GenCall ==
    /\ pc = "generate"
    /\ uid_gen.pc = "idle"
    /\ Len(uid_gen.returned) < MaxCalls
    /\ generate(now, current_uid) # {}
    /\ uid_gen' = [uid_gen EXCEPT !.pc = "loop"]
    /\ UNCHANGED <<pc, accession_map, accession_uid_map, folder_uid_map, current_uid, now,
                   output_manifest, outputs, redaction_mode, files, met, log, remaining,
                   csv, frame, volume>>

\* an iteration that formats current_uid again and goes round (line 228 fails)
GenRetry ==
    /\ pc = "generate"
    /\ uid_gen.pc = "loop"
    /\ \E n \in {m \in Clock : TimeLeq(now, m)} \ generate(now, current_uid) :
         /\ generate(n, current_uid) # {}
         /\ now' = n
    /\ UNCHANGED <<pc, accession_map, accession_uid_map, folder_uid_map, current_uid,
                   output_manifest, outputs, redaction_mode, files, met, log, remaining,
                   csv, frame, volume, uid_gen>>

\* an iteration that formats another identifier, stores it and returns it
\* (lines 228-230)
GenReturn ==
    /\ pc = "generate"
    /\ uid_gen.pc = "loop"
    /\ \E n \in generate(now, current_uid) :
         /\ now' = n
         /\ current_uid' = uid_at[n]
         /\ uid_gen' = [pc |-> "idle", returned |-> Append(uid_gen.returned, uid_at[n])]
    /\ UNCHANGED <<pc, accession_map, accession_uid_map, folder_uid_map,
                   output_manifest, outputs, redaction_mode, files, met, log, remaining,
                   csv, frame, volume>>

NextGen == GenCall \/ GenRetry \/ GenReturn

SpecGen == InitGen /\ [][NextGen]_vars

\* the clock eventually shows a reading that formats to something other than
\* current_uid, and the loop, which waits for nothing, reads it
FairGen == SpecGen /\ WF_vars(GenReturn)

-----------------------------------------------------------------------------
(* Properties of the manifest and of the identifier caches. *)

Rows == 1..Len(output_manifest)
Last == Len(files)

\* C1: manifest rows with the same original accession carry the same pseudonym,
\* study UID and series UID; a pseudonym's UID pair is in the cache after the
\* first file of the pseudonym that passes decoding, whatever happens to that
\* file later, and a cached pair is never changed.
C1_SameAccessionSameUids ==
    /\ [](\A i, j \in Rows :
            output_manifest[i].original_accession = output_manifest[j].original_accession
            => /\ output_manifest[i].deid_accession = output_manifest[j].deid_accession
               /\ output_manifest[i].study_uid = output_manifest[j].study_uid
               /\ output_manifest[i].series_uid = output_manifest[j].series_uid)
    /\ [](\A i \in Rows :
            /\ output_manifest[i].deid_accession \in DOMAIN accession_uid_map
            /\ output_manifest[i].study_uid =
                 accession_uid_map[output_manifest[i].deid_accession].study_uid
            /\ output_manifest[i].series_uid =
                 accession_uid_map[output_manifest[i].deid_accession].series_uid)
    /\ [](\A i \in 1..Len(files) :
            (/\ files[i].is_dicom /\ files[i].readable /\ files[i].decodes
             /\ PixelData \in DOMAIN files[i].ds
             /\ accession(files[i]) \in DOMAIN accession_map)
            => accession_map[accession(files[i])] \in DOMAIN accession_uid_map)
    /\ [][\A p \in DOMAIN accession_uid_map :
            p \in DOMAIN accession_uid_map' /\ accession_uid_map'[p] = accession_uid_map[p]]_vars

\* two rows of one accession, written under two clock readings, the second file
\* carrying the accession with padding
C1_Witness ==
    /\ Len(output_manifest) = 2
    /\ output_manifest[1].original_accession = output_manifest[2].original_accession
    /\ output_manifest[1].sop_instance_uid # output_manifest[2].sop_instance_uid
    /\ files[1].ds[AccessionNumber] # files[2].ds[AccessionNumber]

\* C2: no two manifest rows have the same SOP instance UID.
C2_SopInstanceUidUnique ==
    \A i, j \in Rows :
        i # j => output_manifest[i].sop_instance_uid # output_manifest[j].sop_instance_uid

\* C3: the manifest has one row per file that was written: the number of rows is
\* the number of files redact saved, and every row's deid_path is in the output tree.
C3_RowOnlyIfWritten ==
    /\ Len(output_manifest) = Cardinality({i \in 1..Len(log) : log[i].msg = "saved"})
    /\ \A i \in Rows : output_manifest[i].deid_path \in DOMAIN outputs

\* the files the claim calls skipped: not a DICOM file, unreadable, accession
\* not in the roster, or pixel data that does not decode
IsSkipped(f) ==
    \/ ~f.is_dicom
    \/ ~f.readable
    \/ accession(f) \notin DOMAIN accession_map
    \/ ~f.decodes
    \/ PixelData \notin DOMAIN f.ds

\* C4: a call of process_file on a skipped file writes no output, appends no
\* manifest row and leaves the roster, the UID-pair cache and the path-token map
\* as they were.
C4_SkipLeavesNoTrace ==
    [][(files' # files /\ IsSkipped(files'[Len(files')]))
        => UNCHANGED <<outputs, output_manifest, accession_map, accession_uid_map,
                       folder_uid_map>>]_vars

\* a file whose accession is not in the roster, skipped after a file was saved
C4_Witness ==
    /\ Len(files) = 2
    /\ log[1].msg = "saved"
    /\ log[2].msg = "notthere"
    /\ accession(files[2]) = "Z999"
    /\ Len(output_manifest) = 1
    /\ Cardinality(DOMAIN outputs) = 1

-----------------------------------------------------------------------------
(* Properties of the object written for a file, stated on the file processed  *)
(* last: In is the dataset read, Out the dataset written, Meta its file meta. *)

LastWritten == Last > 0 /\ log[Last].msg = "saved"
In   == files[Last].ds
Out  == outputs[log[Last].output_path].ds
Meta == outputs[log[Last].output_path].file_meta
Pseudonym == accession_map[accession(files[Last])]

\* the elements the identity-replace set names
ReplaceTags ==
    {AccessionNumber, PatientID, PatientName, StudyID, PatientIdentityRemoved,
     StudyInstanceUID, SeriesInstanceUID, SOPInstanceUID}

\* the value assigned to an identity element of the file processed last
Assigned(tag) ==
    CASE tag \in {AccessionNumber, PatientID, PatientName, StudyID} -> Pseudonym
      [] tag = PatientIdentityRemoved -> "YES"
      [] tag = StudyInstanceUID  -> accession_uid_map[Pseudonym].study_uid
      [] tag = SeriesInstanceUID -> accession_uid_map[Pseudonym].series_uid
      [] tag = SOPInstanceUID    -> output_manifest[Len(output_manifest)].sop_instance_uid

\* the sequence elements of a dataset and the positions <<s, j, u>> of the
\* elements nested in their items
SequenceTags(ds) == {s \in DOMAIN ds : is_sequence(s)}
Nested(ds) ==
    UNION {UNION {{<<s, j, u>> : u \in DOMAIN ds[s][j]} : j \in 1..Len(ds[s])} :
              s \in SequenceTags(ds)}
HasNested(ds, q) ==
    q[1] \in DOMAIN ds /\ q[2] \in 1..Len(ds[q[1]]) /\ q[3] \in DOMAIN ds[q[1]][q[2]]
NestedValue(ds, q) == ds[q[1]][q[2]][q[3]]

\* C5: in a written object every identity element, at the top level or nested in
\* a sequence item, holds the assigned pseudonym, UID or "YES", never its input value.
C5_IdentityReplaced ==
    LastWritten =>
        /\ \A t \in ReplaceTags : t \in DOMAIN Out /\ Out[t] = Assigned(t)
        /\ Meta.MediaStorageSOPInstanceUID = Assigned(SOPInstanceUID)
        /\ \A q \in Nested(Out) :
              q[3] \in ReplaceTags => NestedValue(Out, q) = Assigned(q[3])

InKeep(tag) == norm[tag] \in keep_normalized
InReplace(tag) == norm[tag] \in replacement_normalized

RedactRewrites == {PixelData, BitsStored, HighBit, PixelRepresentation}

C7_OthersWipedOrRemoved ==
    LastWritten =>
        /\ \A t \in DOMAIN In :
              (~InKeep(t) /\ ~InReplace(t)) => (t \notin DOMAIN Out \/ Out[t] = Cleared(t))
        /\ \A q \in Nested(In) :
              (~InKeep(q[3]) /\ ~InReplace(q[3]))
              => (~HasNested(Out, q) \/ NestedValue(Out, q) = Cleared(q[3]))

-----------------------------------------------------------------------------
(* Properties of redact_frame. *)

\* the pixels <<x, y>> of a frame that are zero
ZeroPixels(img, samples) ==
    {<<x, y>> \in (DOMAIN img[0]) \X (DOMAIN img) :
        IF samples = 1 THEN img[y][x] = 0 ELSE img[y][x] = <<0, 0, 0>>}

\* the rectangle redact_frame draws for a detection on a rows x cols frame
DrawnRectangle(det, img) ==
    Rectangle(ClampPoint(det.bbox[1], Cardinality(DOMAIN img), Cardinality(DOMAIN img[0])),
              ClampPoint(det.bbox[3], Cardinality(DOMAIN img), Cardinality(DOMAIN img[0])))

\* a detection's text is exempt in Selective mode: it contains a keyword or is one letter
Exempt(text) ==
    \/ \E i \in 1..Len(keywords) : Contains(lower(strip(text)), keywords[i])
    \/ (Len(lower(strip(text))) = 1 /\ isalpha(lower(strip(text))))

\* what the claim says of a detection: masked or not
ToBeMasked(mode, det) ==
    IF mode = "Full" THEN det.prob > Threshold
    ELSE det.prob > Threshold /\ ~Exempt(det.text)

\* C8: when redact_frame returns normally in Full or Selective mode, the rectangle
\* of every detection that is to be masked (confidence above 0.6 and, in Selective
\* mode, text neither holding a keyword nor a single letter) is zero, and every
\* zeroed pixel lies in the rectangle of such a detection: no detection at or
\* below 0.6 and no exempt detection is masked.
C8_MaskDecision ==
    (/\ frame.pc = "returned" /\ ~frame.ocr.raises
     /\ redaction_mode \in {"Full", "Selective"})
    => LET zero == ZeroPixels(frame.out, frame.samples)
           dets == {frame.ocr.results[i] : i \in 1..Len(frame.ocr.results)}
       IN  /\ \A det \in dets :
                ToBeMasked(redaction_mode, det) => DrawnRectangle(det, frame.img) \subseteq zero
           /\ \A p \in zero :
                \E det \in dets :
                    ToBeMasked(redaction_mode, det) /\ p \in DrawnRectangle(det, frame.img)

\* Selective mode, two detections above the threshold: a name that is masked and
\* a keyword that is left alone
C8_Witness ==
    /\ frame.pc = "returned" /\ ~frame.ocr.raises
    /\ redaction_mode = "Selective"
    /\ Len(frame.ocr.results) = 2
    /\ frame.ocr.results[1].text = "Doe^John" /\ frame.ocr.results[1].prob > Threshold
    /\ frame.ocr.results[2].text = " Rt kidney " /\ frame.ocr.results[2].prob > Threshold
    /\ DrawnRectangle(frame.ocr.results[1], frame.img) \subseteq
            ZeroPixels(frame.out, frame.samples)
    /\ DrawnRectangle(frame.ocr.results[2], frame.img) \cap
            ZeroPixels(frame.out, frame.samples) = {}

-----------------------------------------------------------------------------
(* Properties of the loop of main() and of the output paths. *)

\* the diagnostics of a file that failed or was skipped before redact was called
Failures ==
    {"skipping non-DICOM file", "failed to read", "notthere", "failed to decompress",
     "error processing"}

\* C9: whatever fails, main() goes on: it never stops on an exception and reaches
\* the manifest-serialization step with every file of the traversal attempted once,
\* in order; a file that is skipped or raises adds no row and no output; the rows
\* of the other files are never touched; and the row a file appends is fixed by
\* that file and the roster alone in every field that is not a generated UID.
C9_LoopSurvivesFailures ==
    /\ <>(pc = "done")
    /\ [](pc \in {"walk", "done"})
    /\ [](Len(log) = Len(files))
    /\ [](pc = "done" => remaining = 0 /\ csv = output_manifest)
    /\ [][files' # files =>
            /\ Len(files') = Len(files) + 1
            /\ SubSeq(files', 1, Len(files)) = files
            /\ SubSeq(log', 1, Len(log)) = log
            /\ remaining' = remaining - 1]_vars
    /\ [][/\ Len(output_manifest') >= Len(output_manifest)
          /\ SubSeq(output_manifest', 1, Len(output_manifest)) = output_manifest]_vars
    /\ [][(files' # files /\ log'[Len(log')].msg \in Failures)
            => output_manifest' = output_manifest /\ outputs' = outputs]_vars
    /\ [][output_manifest' # output_manifest =>
            LET f == files'[Len(files')]
                r == output_manifest'[Len(output_manifest')]
            IN  /\ Len(output_manifest') = Len(output_manifest) + 1
                /\ r.original_path = f.root \o <<f.file>>
                /\ r.original_accession = accession(f)
                /\ r.deid_accession = accession_map[accession(f)]
                /\ r.AccessionNumber = r.deid_accession
                /\ r.PatientID = r.deid_accession
                /\ r.StudyID = r.deid_accession
                /\ r.PatientIdentityRemoved = "YES"
                /\ r.deid_path = log'[Len(log')].output_path]_vars

\* the run ended after a file that raised (makedirs failed) and a file that was saved
C9_Witness ==
    /\ pc = "done"
    /\ Len(files) = 2
    /\ log[1].msg = "error processing"
    /\ log[2].msg = "saved"
    /\ Len(csv) = 1

\* the file processed last got an output path
LastHasPath == Last > 0 /\ log[Last].output_path # <<>>
OutDir  == SubSeq(log[Last].output_path, 1, Len(log[Last].output_path) - 1)
OutName == log[Last].output_path[Len(log[Last].output_path)]

\* C10 as claimed: the output directory has as many segments as the input
\* directory, also for a file directly in the input root.
C10_SameDepth ==
    LastHasPath =>
        /\ Len(OutDir) = Len(files[Last].root)
        /\ Len(OutDir) >= 1 => OutDir[1] = Pseudonym
        /\ \A i \in 2..Len(files[Last].root) :
              /\ files[Last].root[i] \in DOMAIN folder_uid_map
              /\ OutDir[i] = folder_uid_map[files[Last].root[i]]
        /\ OutName = Pseudonym \o "_" \o current_uid \o ".dcm"

\* C10 amended: the output directory has k segments when the input directory has
\* k >= 1 and the single segment pseudonym when the file lies in the input root;
\* the first is the pseudonym, the i-th (i >= 2) the token of s_i; a token, once
\* in folder_uid_map, is never changed; the file name is {pseudonym}_{sop uid}.dcm.
C10_OutputPath ==
    /\ [](LastHasPath =>
            /\ Len(OutDir) = Max(Len(files[Last].root), 1)
            /\ OutDir[1] = Pseudonym
            /\ \A i \in 2..Len(files[Last].root) :
                  /\ files[Last].root[i] \in DOMAIN folder_uid_map
                  /\ OutDir[i] = folder_uid_map[files[Last].root[i]]
            /\ OutName = Pseudonym \o "_" \o current_uid \o ".dcm")
    /\ [][\A seg \in DOMAIN folder_uid_map :
            seg \in DOMAIN folder_uid_map' /\ folder_uid_map'[seg] = folder_uid_map[seg]]_vars

\* two saved files under different pseudonyms share the folder name s1 and its token
C10_Witness ==
    /\ Len(files) = 2
    /\ log[1].msg = "saved" /\ log[2].msg = "saved"
    /\ files[1].root = <<"A123", "s1">> /\ files[2].root = <<"B456", "s1">>
    /\ log[1].output_path[1] = "P001" /\ log[2].output_path[1] = "P002"
    /\ log[1].output_path[2] = log[2].output_path[2]
    /\ log[2].output_path[2] = folder_uid_map["s1"]

-----------------------------------------------------------------------------
(* Properties of the rectangle redact_frame zeroes. *)

\* the axis-aligned bounding rectangle of the four corners of a quadrilateral
BoundingRectangle(bbox) ==
    LET xs == {bbox[i][1] : i \in 1..4}
        ys == {bbox[i][2] : i \in 1..4}
    IN  {<<x, y>> : x \in (CHOOSE a \in xs : \A b \in xs : a <= b)
                          ..(CHOOSE a \in xs : \A b \in xs : a >= b),
                    y \in (CHOOSE a \in ys : \A b \in ys : a <= b)
                          ..(CHOOSE a \in ys : \A b \in ys : a >= b)}

\* the pixels <<x, y>> of a frame: [0, cols-1] x [0, rows-1]
FramePixels(img) == (DOMAIN img[0]) \X (DOMAIN img)

\* the detections of the call that reach cv2.rectangle
MaskedDetections ==
    {frame.ocr.results[i] : i \in {j \in 1..Len(frame.ocr.results) :
                                      Masked(redaction_mode, frame.ocr.results[j])}}

\* C11: when redact_frame returns normally, the zeroed pixels are exactly the
\* union, over the masked detections, of the bounding rectangle of the four
\* corners cut to the frame, and every other pixel keeps its original value; a
\* slanted quadrilateral is covered by its whole bounding rectangle and a
\* detection wholly outside the frame zeroes nothing.
C11_BoundingRectangleZeroed ==
    (frame.pc = "returned" /\ ~frame.ocr.raises)
    => /\ ZeroPixels(frame.out, frame.samples)
            = UNION {BoundingRectangle(det.bbox) \cap FramePixels(frame.img) :
                        det \in MaskedDetections}
       /\ \A p \in FramePixels(frame.img) \ ZeroPixels(frame.out, frame.samples) :
            frame.out[p[2]][p[1]] = frame.img[p[2]][p[1]]

-----------------------------------------------------------------------------
(* Properties of redact on the whole pixel volume. *)

\* the attributes that say how the samples of Pixel Data are to be read
BitAttributes == {BitsAllocated, BitsStored, HighBit, PixelRepresentation}

\* C12: in a written object Bits Allocated, Bits Stored, High Bit and Pixel
\* Representation have the values they had in the input object, also when the
\* input stores fewer bits than it allocates and its samples are signed.
C12_BitAttributesAsInput ==
    LastWritten => \A t \in BitAttributes : t \in DOMAIN Out /\ Out[t] = In[t]


\* the frames of the volume handed to redact, and of the volume it left
InFrames  == volume.ds[PixelData]
OutFrames == volume.out.ds[PixelData]

\* frame i came back as redact_frame leaves it: untouched when its detection
\* raised, else zeroed exactly where its own detections are masked
FrameFromOwnDetections(i) ==
    IF volume.ocr[i].raises THEN OutFrames[i] = InFrames[i]
    ELSE /\ ZeroPixels(OutFrames[i], 1)
              = ZeroedBy(redaction_mode, volume.ocr[i].results,
                         Cardinality(DOMAIN InFrames[i]), Cardinality(DOMAIN InFrames[i][0]))
         /\ \A p \in FramePixels(InFrames[i]) \ ZeroPixels(OutFrames[i], 1) :
              OutFrames[i][p[2]][p[1]] = InFrames[i][p[2]][p[1]]

\* C13 as claimed: whatever frames raise, every frame comes back from its own
\* detections in its place and the file is written; redact returns without a
\* written file only when the pixel array cannot be accessed.
C13_OnlyPixelAccessStopsWrite ==
    (volume.pc = "returned" /\ PixelData \in DOMAIN volume.ds)
    => /\ volume.out.written <=> volume.pixel_ok
       /\ volume.pixel_ok =>
            /\ Len(OutFrames) = Len(InFrames)
            /\ \A i \in 1..Len(InFrames) : FrameFromOwnDetections(i)

\* C13 amended: redact always returns; the file is written exactly when the
\* dataset has Pixel Data, the pixel array can be accessed and the write itself
\* succeeds, whatever frames raise in detection or masking; and in a written
\* file the frames are in their original order, a frame that raised with its
\* original values, every other frame masked from its own detections only.
C13_FrameErrorsKeepFile ==
    volume.pc = "returned"
    => /\ volume.out.msg # "raise"
       /\ volume.out.written
            <=> (PixelData \in DOMAIN volume.ds /\ volume.pixel_ok /\ volume.write_ok)
       /\ volume.out.written =>
            /\ Len(OutFrames) = Len(InFrames)
            /\ \A i \in 1..Len(InFrames) : FrameFromOwnDetections(i)

\* Full mode, three frames: a name found on the first, the reader raises on the
\* second, "LEFT" found on the third; the file is written
C13_Witness ==
    /\ volume.pc = "returned" /\ volume.out.written
    /\ redaction_mode = "Full"
    /\ Len(InFrames) = 3
    /\ volume.ocr[1].results = <<Detection(0, "Doe")>>
    /\ volume.ocr[2].raises
    /\ volume.ocr[3].results = <<Detection(1, " LEFT")>>
    /\ ZeroPixels(OutFrames[1], 1) = {<<0, 0>>}
    /\ OutFrames[2] = VolumeFrame(2)
    /\ ZeroPixels(OutFrames[3], 1) = {<<1, 0>>}

-----------------------------------------------------------------------------
(* Properties of UIDGenerator.generate. *)

\* C14: every identifier generate() returns starts with the organizational root
\* followed by a dot and differs from the one returned by the call before it;
\* the generator's current_uid is the last one returned; and a call that is in
\* its loop returns, given that the clock comes to a reading that formats to
\* something other than the last identifier returned.
C14_GenerateReturnsFresh ==
    /\ [](\A i \in 1..Len(uid_gen.returned) :
            /\ Len(uid_gen.returned[i]) > Len(org_root) + 1
            /\ SubSeq(uid_gen.returned[i], 1, Len(org_root) + 1) = org_root \o ".")
    /\ [](\A i \in 1..(Len(uid_gen.returned) - 1) :
            uid_gen.returned[i] # uid_gen.returned[i + 1])
    /\ [](Len(uid_gen.returned) > 0 =>
            current_uid = uid_gen.returned[Len(uid_gen.returned)])
    /\ (uid_gen.pc = "loop") ~> (uid_gen.pc = "idle")

\* three calls have returned; the third came an hour after the second, at the
\* same microsecond, where the clock formats to the second identifier again
C14_Witness ==
    /\ uid_gen.pc = "idle"
    /\ Len(uid_gen.returned) = 3
    /\ now.hour = 1
    /\ uid_gen.returned[1] = uid_gen.returned[3]
    /\ uid_gen.returned[2] # uid_gen.returned[3]

-----------------------------------------------------------------------------
(* Properties of the redaction mode string. *)

\* the pixels the detections of the call zero when the exemptions of Selective
\* mode are applied (exempt = TRUE) or not
ZeroedWith(exempt) ==
    UNION {DrawnRectangle(frame.ocr.results[i], frame.img) :
              i \in {j \in 1..Len(frame.ocr.results) :
                        /\ frame.ocr.results[j].prob > Threshold
                        /\ exempt => ~Exempt(frame.ocr.results[j].text)}}

\* C15: no mode string is rejected: for every mode a redactor exists and its
\* redact_frame yields a frame of the size of its input; it masks every detection
\* above the threshold only when the mode is exactly "Full", and for every other
\* string ("Selective", "full", "") it applies the keyword / single-letter
\* exemptions.
C15_OnlyExactFullIsFull ==
    /\ redaction_mode \in FrameModes
    /\ frame.pc = "call" =>
         FramePixels(redact_frame(redaction_mode, frame.img, frame.samples, frame.ocr))
            = FramePixels(frame.img)
    /\ frame.pc = "returned" => FramePixels(frame.out) = FramePixels(frame.img)
    /\ (frame.pc = "returned" /\ ~frame.ocr.raises)
       => ZeroPixels(frame.out, frame.samples) = ZeroedWith(redaction_mode # "Full")

\* mode "full": a name and "LEFT", both above the threshold; only the name is masked
C15_Witness ==
    /\ frame.pc = "returned" /\ ~frame.ocr.raises
    /\ redaction_mode = "full"
    /\ Len(frame.ocr.results) = 2
    /\ frame.ocr.results[1].text = "Doe^John" /\ frame.ocr.results[1].prob > Threshold
    /\ frame.ocr.results[2].text = "LEFT" /\ frame.ocr.results[2].prob > Threshold
    /\ frame.ocr.results[1].bbox # frame.ocr.results[2].bbox
    /\ ZeroPixels(frame.out, frame.samples)
            = DrawnRectangle(frame.ocr.results[1], frame.img)
    /\ ZeroedWith(FALSE) # ZeroedWith(TRUE)

====
